---- MODULE Spec2Model ----
(***************************************************************************)
(* Model of the docs route module  src/app/docs/[...slug]/page.tsx  of the *)
(* concordium-tina-docs site, in its three revisions:                      *)
(*   "page"   src/src/app/docs/[...slug]/page.tsx                          *)
(*   "partA"  src/unnamed/part_001, lines 1-108                            *)
(*   "partB"  src/unnamed/part_001, lines 109-228                          *)
(* generateStaticParams pages through client.queries.docsConnection and    *)
(* maps every edge's _sys.path to a slug; generateMetadata defaults the    *)
(* canonical URL of a document.                                            *)
(*                                                                         *)
(* Strings are sequences of one-character strings, so that the regular     *)
(* expressions and split/join of the source are computed, not assumed.     *)
(***************************************************************************)
EXTENDS Naturals, Sequences, FiniteSets

VARIABLES
    variant,       \* which revision of page.tsx is built
    store,         \* the content store behind client.queries.docsConnection
    pc,            \* position of generateStaticParams: idle, await, map, done
    pending,       \* the `after` cursor of the docsConnection call in flight
    pageListData,  \* local `pageListData`: the last response
    edges,         \* local `edges`: the accumulator
    fetchLog,      \* cursors of the docsConnection calls issued by this run
    outstanding,   \* docsConnection calls issued and not yet settled
    results,       \* what each finished run gave its caller, oldest first
    metaIn,        \* the last generateMetadata call: params and document requested
    metaPending,   \* generateMetadata calls awaiting the store, oldest first
    metaOut,       \* the last hand-over to getSeo, with the call it belongs to
    pageIn         \* the last DocsPage call: params and the document requested

vars == <<variant, store, pc, pending, pageListData, edges, fetchLog,
          outstanding, results, metaIn, metaPending, metaOut, pageIn>>

(***************************************************************************)
(* Bounds of the model.                                                    *)
(***************************************************************************)
MaxPages == 3
MaxEdges == 2
MaxRuns == 2
MaxLog == 5
MaxSegTokens == 1
MaxMetaPending == 2

(***************************************************************************)
(* Strings.                                                                *)
(***************************************************************************)
Slash == <<"/">>
DotMdx == <<".", "m", "d", "x">>
DotMd == <<".", "m", "d">>
Root == <<"c", "o", "n", "t", "e", "n", "t", "/", "d", "o", "c", "s", "/">>

StartsWith(s, p) == Len(s) >= Len(p) /\ SubSeq(s, 1, Len(p)) = p
EndsWith(s, p) == Len(s) >= Len(p) /\ SubSeq(s, Len(s) - Len(p) + 1, Len(s)) = p
DropFirst(s, n) == SubSeq(s, n + 1, Len(s))
DropLast(s, n) == SubSeq(s, 1, Len(s) - n)

\* path.replace(/\.mdx$/, "")
ReplaceExtMdx(path) ==
    IF EndsWith(path, DotMdx) THEN DropLast(path, Len(DotMdx)) ELSE path

\* path.replace(/\.mdx?$/, "")
ReplaceExtMdOrMdx(path) ==
    IF EndsWith(path, DotMdx) THEN DropLast(path, Len(DotMdx))
    ELSE IF EndsWith(path, DotMd) THEN DropLast(path, Len(DotMd))
    ELSE path

\* A wrong extension strip: the pattern without its $ anchor removes the
\* first ".mdx" wherever it is.
RECURSIVE RemoveFirstMdx(_)
RemoveFirstMdx(s) ==
    IF s = <<>> THEN s
    ELSE IF StartsWith(s, DotMdx) THEN DropFirst(s, Len(DotMdx))
    ELSE <<Head(s)>> \o RemoveFirstMdx(Tail(s))

StripExtUnanchored(v, path) == RemoveFirstMdx(path)

\* The extension strip of each revision.
StripExt(v, path) ==
    IF v = "page" THEN ReplaceExtMdOrMdx(path) ELSE ReplaceExtMdx(path)

\* withoutExt.replace(/^content\/docs\//, "")
StripPrefix(s) == IF StartsWith(s, Root) THEN DropFirst(s, Len(Root)) ELSE s

\* s.split("/"): the pieces between separators, empty pieces included;
\* "" splits to [""].
RECURSIVE Split(_)
Split(s) ==
    IF \A i \in 1..Len(s) : s[i] # "/" THEN <<s>>
    ELSE LET i == CHOOSE k \in 1..Len(s) :
                      s[k] = "/" /\ \A j \in 1..(k - 1) : s[j] # "/"
         IN  <<SubSeq(s, 1, i - 1)>> \o Split(DropFirst(s, i))

\* segments.filter((segment) => segment.length > 0)
RECURSIVE NonEmptySegments(_)
NonEmptySegments(segs) ==
    IF segs = <<>> THEN <<>>
    ELSE IF Len(Head(segs)) > 0
         THEN <<Head(segs)>> \o NonEmptySegments(Tail(segs))
         ELSE NonEmptySegments(Tail(segs))

\* slugArray.join(sep)
RECURSIVE Join(_, _)
Join(segs, sep) ==
    IF segs = <<>> THEN <<>>
    ELSE IF Len(segs) = 1 THEN Head(segs)
    ELSE Head(segs) \o sep \o Join(Tail(segs), sep)

RECURSIVE Concat(_)
Concat(ss) == IF ss = <<>> THEN <<>> ELSE Head(ss) \o Concat(Tail(ss))

\* The sequences over S of length 0..n.
SeqUpTo(S, n) == UNION {[1..k -> S] : k \in 0..n}

(***************************************************************************)
(* The content store.  An edge is one of                                   *)
(*   nullEdge  the edge itself is null                                     *)
(*   nullNode  edge.node is null                                           *)
(*   noSys     edge.node has no _sys object                                *)
(*   noPath    edge.node._sys has no path                                  *)
(*   doc       edge.node._sys.path is the string `path` (possibly "")      *)
(***************************************************************************)
Variants == {"page", "partA", "partB"}
EdgeKinds == {"nullEdge", "nullNode", "noSys", "noPath", "doc"}
Edge(k) == [kind |-> k, path |-> <<>>]
Doc(p) == [kind |-> "doc", path |-> p]

NoCursor == 0

G1 == Root \o <<"a", "/", "b">> \o DotMdx
G2 == Root \o <<"c">> \o DotMdx
G3 == Root \o <<"b", "/", "a", "/", "c">> \o DotMdx
GoodPaths == <<G1, G2, G3>>
\* The slugs of GoodPaths, written out by hand.
GoodSlugs == << << <<"a">>, <<"b">> >>, << <<"c">> >>, << <<"b">>, <<"a">>, <<"c">> >> >>
Fill(i) == ((i - 1) % Len(GoodPaths)) + 1

\* Pages of well-formed documents: every shape of up to MaxPages pages of up
\* to MaxEdges edges (or a null edge list), filled in store order.
PageShapes == {[edgesNull |-> TRUE, n |-> 0]}
                 \cup {[edgesNull |-> FALSE, n |-> k] : k \in 0..MaxEdges}
RECURSIVE SumN(_)
SumN(shape) == IF shape = <<>> THEN 0 ELSE Head(shape).n + SumN(Tail(shape))
FillPages(shape) ==
    [k \in 1..Len(shape) |->
        [edgesNull |-> shape[k].edgesNull,
         edges |-> [j \in 1..shape[k].n |->
                       Doc(GoodPaths[Fill(SumN(SubSeq(shape, 1, k - 1)) + j)])]]]
Page(es) == [edgesNull |-> FALSE, edges |-> es]
PagedStores ==
    {[pages |-> FillPages(shape), stuck |-> st, failAt |-> f] :
        shape \in SeqUpTo(PageShapes, MaxPages) \ {<<>>},
        st \in BOOLEAN, f \in 0..(MaxPages + 1)}

\* Pages holding records without a usable path.
MRecords == {Edge(k) : k \in EdgeKinds \ {"doc"}} \cup {Doc(<<>>), Doc(G1), Doc(G2)}
MalformedStores ==
    {[pages |-> ps, stuck |-> FALSE, failAt |-> 0] :
        ps \in UNION {{<<Page(es)>>, <<Page(es), Page(<<Doc(G3)>>)>>,
                       <<Page(<<Doc(G3)>>), Page(es)>>} :
                         es \in SeqUpTo(MRecords, MaxEdges)}}

\* One document whose path is put together from a prefix, two segments, a
\* separator and an extension, each possibly missing, doubled or misplaced.
SegTokens == {<<"a">>, DotMdx, DotMd}
Segs == {Concat(t) : t \in SeqUpTo(SegTokens, MaxSegTokens)}
Pres == {<<>>, Root, Slash \o Root, Root \o Root}
Seps == {<<>>, Slash, Slash \o Slash}
Exts == {<<>>, DotMdx, DotMd, Slash \o DotMdx}
RichPaths == {pre \o a \o sep \o b \o ext :
                 pre \in Pres, a \in Segs, sep \in Seps, b \in Segs, ext \in Exts}
PathStores ==
    {[pages |-> <<Page(<<Doc(p)>>)>>, stuck |-> FALSE, failAt |-> 0] : p \in RichPaths}

\* A store fails the request for one page (failAt = that page's number) or
\* none (0); a stuck store reports hasNextPage on every page, and past its
\* last page keeps answering with an empty page and another cursor.
Stores == {s \in PagedStores : s.failAt <= Len(s.pages) + (IF s.stuck THEN 1 ELSE 0)}
             \cup MalformedStores \cup PathStores

NumPages(st) == Len(st.pages)
Fails(st, after) == st.failAt = after + 1

\* client.queries.docsConnection({ after }): data.docsConnection
docsConnection(st, after) ==
    IF after < NumPages(st)
    THEN [edgesNull |-> st.pages[after + 1].edgesNull,
          edges |-> st.pages[after + 1].edges,
          hasNextPage |-> (after + 1 < NumPages(st)) \/ st.stuck,
          endCursor |-> after + 1]
    ELSE [edgesNull |-> FALSE, edges |-> <<>>,
          hasNextPage |-> st.stuck,
          endCursor |-> IF after = NumPages(st) THEN after + 1 ELSE NumPages(st)]

NoResponse == [edgesNull |-> TRUE, edges |-> <<>>, hasNextPage |-> FALSE,
               endCursor |-> NoCursor]

(***************************************************************************)
(* generateStaticParams: the map over the accumulated edges.               *)
(***************************************************************************)
Undefined == [tag |-> "undef", val |-> <<>>]
Thrown == [tag |-> "throw", val |-> <<>>]
Str(p) == [tag |-> "str", val |-> p]

\* page:  edge?.node?._sys.path      partA, partB:  edge?.node?._sys?.path
EdgePath(v, e) ==
    IF e.kind = "doc" THEN Str(e.path)
    ELSE IF e.kind = "noSys" /\ v = "page" THEN Thrown
    ELSE Undefined

\* !!path  /  if (!path) return null
Truthy(x) == x.tag = "str" /\ x.val # <<>>

\* The slug of a path, per revision; only partB filters the segments.
SlugOf(v, path) ==
    LET segs == Split(StripPrefix(StripExt(v, path)))
    IN  IF v = "partB" THEN NonEmptySegments(segs) ELSE segs

RECURSIVE RouteParams(_, _)
RouteParams(v, acc) ==
    IF acc = <<>> THEN <<>>
    ELSE LET x == EdgePath(v, Head(acc))
         IN  (IF Truthy(x) THEN <<[slug |-> SlugOf(v, x.val)]>> ELSE <<>>)
                 \o RouteParams(v, Tail(acc))

MapThrows(v, acc) == \E i \in 1..Len(acc) : EdgePath(v, acc[i]).tag = "throw"

\* What a run gives its caller: the value returned, and whether an error
\* left the function instead.
Returned(out) == [out |-> out, raised |-> FALSE]

\* A catch block that keeps what was collected.
OnErrorPartial(v, acc) == Returned(RouteParams(v, acc))

\* catch (error) { console.error(...); return []; }
OnError(v, acc) == Returned(<<>>)

\* The accumulator of a run that never clears it (a module-level array).
StaleAccumulator == edges

\* const edges = [] : a fresh accumulator per call
NewAccumulator == <<>>

\* A next-page request that forgets the cursor.
NextCursorNone(page) == NoCursor

\* const lastCursor = pageListData.data.docsConnection.pageInfo.endCursor
NextCursor(page) == page.endCursor

\* A loop test that never asks for a further page.
HasNextIgnored(page) == FALSE

\* while (pageListData.data.docsConnection.pageInfo.hasNextPage)
HasNext(page) == page.hasNextPage

\* A push that replaces the accumulator with the new page.
PushEdgesReplace(acc, page) == IF page.edgesNull THEN <<>> ELSE page.edges

\* edges.push(...(page.edges ?? []))
PushEdges(acc, page) == acc \o (IF page.edgesNull THEN <<>> ELSE page.edges)

LogAppend(log, c) == IF Len(log) < MaxLog THEN Append(log, c) ELSE log


(***************************************************************************)
(* generateMetadata.  A seo object is absent (null/undefined) or present   *)
(* with a canonicalUrl that is missing, "" or a string, and other fields.  *)
(***************************************************************************)
Localhost == <<"h", "t", "t", "p", ":", "/", "/", "l", "o", "c", "a", "l", "h",
               "o", "s", "t", ":", "3", "0", "0", "0">>
\* settings.siteUrl of content/siteConfig.json: a site address
SettingsSiteUrl == <<"h", "t", "t", "p", "s", ":", "/", "/", "s", ".", "i", "o">>
TinaDocsRoute == <<"/", "t", "i", "n", "a", "d", "o", "c", "s", "/", "d", "o",
                   "c", "s", "/">>
PresetUrl == <<"h", "t", "t", "p", "s", ":", "/", "/", "p", ".", "i", "o", "/", "x">>

\* const siteUrl = NODE_ENV === "development" ? "http://localhost:3000" : settings.siteUrl
siteUrl(dev) == IF dev THEN Localhost ELSE SettingsSiteUrl

Missing == [set |-> FALSE, val |-> <<>>]
Val(x) == [set |-> TRUE, val |-> x]
NoSeo == [present |-> FALSE, typename |-> "", canonicalUrl |-> Missing,
          title |-> ""]
SeoValues ==
    {NoSeo} \cup
    {[present |-> TRUE, typename |-> "DocsSeo", canonicalUrl |-> c, title |-> t] :
        c \in {Missing, Val(<<>>), Val(PresetUrl),
               Val(SettingsSiteUrl \o TinaDocsRoute)},
        t \in {"", "T1", "T2"}}
DocValues == {[title |-> t, seo |-> o] : t \in {"Doc1", "Doc2"}, o \in SeoValues}
ParamValues ==
    {[hasSlug |-> FALSE, slug |-> <<>>]} \cup
    {[hasSlug |-> TRUE, slug |-> g] :
        g \in {<<>>, << <<"a">> >>, << <<"a">>, <<"b">> >>, << <<"c">>, <<"a">>, <<"b">> >>}}

\* (params.slug || []).join("/")   /   params?.slug?.join("/") || ""
MetaSlug(v, params) ==
    IF params.hasSlug THEN Join(params.slug, Slash) ELSE <<>>

\* `${siteUrl}/tinadocs/docs/${slug}`
DefaultCanonical(dev, slug) == siteUrl(dev) \o TinaDocsRoute \o slug

\* A default that is written over whatever the record holds.
AlwaysDefaulted(seo) == TRUE

\* !data.docs.seo  ||  !data.docs.seo?.canonicalUrl
NeedsCanonical(seo) ==
    ~seo.present \/ ~seo.canonicalUrl.set \/ seo.canonicalUrl.val = <<>>

\* data.docs.seo after the if / else if
SeoAfter(v, params, doc, dev) ==
    LET url == Val(DefaultCanonical(dev, MetaSlug(v, params)))
    IN  IF ~doc.seo.present
        THEN [present |-> TRUE, typename |-> "DocsSeo", canonicalUrl |-> url,
              title |-> ""]
        ELSE IF NeedsCanonical(doc.seo)
             THEN [doc.seo EXCEPT !.canonicalUrl = url]
             ELSE doc.seo

\* The calls of generateMetadata awaiting fetchTinaData, without the i-th.
RemoveAt(q, i) == SubSeq(q, 1, i - 1) \o SubSeq(q, i + 1, Len(q))

\* generateMetadata({ params }) up to its await: the slug is joined and
\* fetchTinaData(client.queries.docs, slug) is issued.  siteUrl is a constant
\* of the module, so every call of one build sees the same NODE_ENV.
GenerateMetadataCall(params, dev) ==
    /\ Len(metaPending) < MaxMetaPending
    /\ metaIn.called => metaIn.dev = dev
    /\ metaIn' = [called |-> TRUE, params |-> params, dev |-> dev,
                  request |-> MetaSlug(variant, params)]
    /\ metaPending' = Append(metaPending,
                             [params |-> params, dev |-> dev,
                              request |-> MetaSlug(variant, params)])
    /\ UNCHANGED <<variant, store, pc, pending, pageListData, edges, fetchLog,
                   outstanding, results, metaOut, pageIn>>

\* The store answers the i-th call in flight with the record `doc`: the rest
\* of generateMetadata runs and getSeo receives the seo object and the page
\* title.  Answers come in any order.
GenerateMetadataResolve(i, doc) ==
    /\ i \in 1..Len(metaPending)
    /\ metaOut' = [called |-> TRUE, params |-> metaPending[i].params,
                   dev |-> metaPending[i].dev, doc |-> doc,
                   seo |-> SeoAfter(variant, metaPending[i].params, doc,
                                    metaPending[i].dev),
                   pageTitle |-> doc.title]
    /\ metaPending' = RemoveAt(metaPending, i)
    /\ UNCHANGED <<variant, store, pc, pending, pageListData, edges, fetchLog,
                   outstanding, results, metaIn, pageIn>>

\* The store rejects the i-th call in flight (no such document): the await
\* throws, generateMetadata rejects and getSeo is not called.
GenerateMetadataReject(i) ==
    /\ i \in 1..Len(metaPending)
    /\ metaPending' = RemoveAt(metaPending, i)
    /\ UNCHANGED <<variant, store, pc, pending, pageListData, edges, fetchLog,
                   outstanding, results, metaIn, metaOut, pageIn>>

BasePathSegment == <<"/", "c", "o", "n", "c", "o", "r", "d", "i", "u", "m", "-",
                     "t", "i", "n", "a", "-", "d", "o", "c", "s", "/">>

\* DocsPage: (params.slug || []).join("/") in page.tsx and partB,
\* slugArray.join("/concordium-tina-docs/") in partA
PageSlug(v, params) ==
    IF ~params.hasSlug THEN <<>>
    ELSE IF v = "partA" THEN Join(params.slug, BasePathSegment)
    ELSE Join(params.slug, Slash)

\* DocsPage({ params }): getData(slug) asks the store for the document at
\* the joined slug; the page is rendered from what comes back.
DocsPage(params) ==
    /\ pageIn' = [called |-> TRUE, params |-> params,
                  request |-> PageSlug(variant, params)]
    /\ UNCHANGED <<variant, store, pc, pending, pageListData, edges, fetchLog,
                   outstanding, results, metaIn, metaPending, metaOut>>

NoMeta == [called |-> FALSE]

Init ==
    /\ variant \in Variants
    /\ store \in Stores
    /\ pc = "idle"
    /\ pending = NoCursor
    /\ pageListData = NoResponse
    /\ edges = <<>>
    /\ fetchLog = <<>>
    /\ outstanding = 0
    /\ results = <<>>
    /\ metaIn = NoMeta
    /\ metaPending = <<>>
    /\ metaOut = NoMeta
    /\ pageIn = NoMeta

\* The caller invokes generateStaticParams: the first docsConnection call is
\* issued with no cursor.
Call ==
    /\ pc \in {"idle", "done"}
    /\ Len(results) < MaxRuns
    /\ pc' = "await"
    /\ pending' = NoCursor
    /\ pageListData' = NoResponse
    /\ edges' = NewAccumulator
    /\ fetchLog' = <<NoCursor>>
    /\ outstanding' = 1
    /\ UNCHANGED <<variant, store, results, metaIn, metaPending, metaOut, pageIn>>

\* The awaited docsConnection call resolves: its edges are pushed, and the
\* loop test either issues the next call or leaves the loop.
FetchOk ==
    /\ pc = "await"
    /\ ~Fails(store, pending)
    /\ LET page == docsConnection(store, pending)
       IN  /\ pageListData' = page
           /\ edges' = PushEdges(edges, page)
           /\ IF HasNext(page)
              THEN /\ pending' = NextCursor(page)
                   /\ fetchLog' = LogAppend(fetchLog, NextCursor(page))
                   /\ outstanding' = 1
                   /\ pc' = "await"
              ELSE /\ pending' = NoCursor
                   /\ outstanding' = 0
                   /\ pc' = "map"
                   /\ UNCHANGED fetchLog
    /\ UNCHANGED <<variant, store, results, metaIn, metaPending, metaOut, pageIn>>

\* The awaited docsConnection call rejects: the catch block ends the run.
FetchFail ==
    /\ pc = "await"
    /\ Fails(store, pending)
    /\ results' = Append(results, OnError(variant, edges))
    /\ outstanding' = 0
    /\ pc' = "done"
    /\ UNCHANGED <<variant, store, pending, pageListData, edges, fetchLog,
                   metaIn, metaPending, metaOut, pageIn>>

\* After the loop: the edges are mapped to route params and returned; an
\* exception in the map is caught like any other.
MapEdges ==
    /\ pc = "map"
    /\ results' = Append(results,
                    IF MapThrows(variant, edges) THEN OnError(variant, edges)
                    ELSE Returned(RouteParams(variant, edges)))
    /\ pc' = "done"
    /\ UNCHANGED <<variant, store, pending, pageListData, edges, fetchLog,
                   outstanding, metaIn, metaPending, metaOut, pageIn>>

Next == Call \/ FetchOk \/ FetchFail \/ MapEdges

Spec == Init /\ [][Next]_vars

\* Every await of the run is eventually settled and every synchronous step
\* taken: the event loop runs what is runnable.  Termination is a matter of
\* the pagination alone, so the stores are the paged ones.
FairInit == Init /\ store \in PagedStores
FairSpec == FairInit /\ [][Next]_vars /\ WF_vars(Next)

\* generateMetadata on its own: any params, any fetched record.
MetaInit ==
    /\ Init
    /\ store = [pages |-> <<Page(<<Doc(G1)>>)>>, stuck |-> FALSE, failAt |-> 0]

MetaCall ==
    \E params \in ParamValues, dev \in BOOLEAN : GenerateMetadataCall(params, dev)

MetaResolve ==
    \E i \in 1..MaxMetaPending, doc \in DocValues : GenerateMetadataResolve(i, doc)

MetaReject == \E i \in 1..MaxMetaPending : GenerateMetadataReject(i)

MetaNext == MetaCall \/ MetaResolve \/ MetaReject

MetaSpec == MetaInit /\ [][MetaNext]_vars

\* The static build: once generateStaticParams has returned, every route it
\* listed is rendered, which calls generateMetadata and DocsPage with that
\* route's params.
EmittedParams ==
    IF pc = "done" /\ results # <<>>
    THEN {[hasSlug |-> TRUE, slug |-> results[Len(results)].out[k].slug] :
             k \in 1..Len(results[Len(results)].out)}
    ELSE {}

\* The records rendered: every shape of seo.canonicalUrl, one title.
RouteDocs == {d \in DocValues : d.title = "Doc1" /\ d.seo.title = ""}

RouteMetadata ==
    \E params \in EmittedParams, dev \in BOOLEAN : GenerateMetadataCall(params, dev)

RouteMetaResolve ==
    \E i \in 1..MaxMetaPending, doc \in RouteDocs : GenerateMetadataResolve(i, doc)

RoutePage == \E params \in EmittedParams : DocsPage(params)

\* A build starts with generateStaticParams; nothing has been rendered yet.
RouteCall == Call /\ ~metaIn.called /\ ~pageIn.called

RouteNext ==
    \/ RouteCall \/ FetchOk \/ FetchFail \/ MapEdges
    \/ RouteMetadata \/ RouteMetaResolve \/ MetaReject \/ RoutePage

\* Rendering is a matter of the slugs emitted, so the stores are those whose
\* documents are well-formed, with or without records that are skipped.
RouteInit == Init /\ store \in PagedStores \cup MalformedStores

RouteSpec == RouteInit /\ [][RouteNext]_vars

(***************************************************************************)
(* What the store holds, read off the store alone.                         *)
(***************************************************************************)
RECURSIVE AllEdges(_)
AllEdges(pages) ==
    IF pages = <<>> THEN <<>> ELSE Head(pages).edges \o AllEdges(Tail(pages))

Healthy(st) == st.failAt = 0 /\ ~st.stuck
IsGood(e) == e.kind = "doc" /\ \E i \in 1..Len(GoodPaths) : GoodPaths[i] = e.path
\* A record whose storage path is absent or empty: no edge, no node, a node
\* without _sys, a _sys without path, or the path "".
Skippable(e) ==
    \/ e.kind \in {"nullEdge", "nullNode", "noSys", "noPath"}
    \/ e.kind = "doc" /\ e.path = <<>>
GoodSlug(path) == GoodSlugs[CHOOSE i \in 1..Len(GoodPaths) : GoodPaths[i] = path]

\* The hand-written slugs of the well-formed documents of es, in order.
RECURSIVE ExpectedParams(_)
ExpectedParams(es) ==
    IF es = <<>> THEN <<>>
    ELSE (IF IsGood(Head(es)) THEN <<[slug |-> GoodSlug(Head(es).path)]>> ELSE <<>>)
             \o ExpectedParams(Tail(es))

Sizes(st) == [k \in 1..NumPages(st) |-> Len(st.pages[k].edges)]
IsPathStore(st, p) == st = [pages |-> <<Page(<<Doc(p)>>)>>, stuck |-> FALSE, failAt |-> 0]
NonEmptySegs == Segs \ {<<>>}

(***************************************************************************)
(* Claims.                                                                 *)
(***************************************************************************)

\* C1: when a docsConnection call of the run fails (the first page or a later
\* one), the run returns the empty array: no partial list of the pages
\* fetched before the failure, and the error does not leave the function.
C1_FailureGivesEmpty ==
    store.failAt # 0 =>
        \A i \in 1..Len(results) : results[i] = [out |-> <<>>, raised |-> FALSE]

\* C1 witness: page 2 of 3 failed after a first page of two documents, and
\* the run has returned.
C1_Witness ==
    /\ store.failAt = 2 /\ ~store.stuck
    /\ Sizes(store) = <<2, 2, 1>>
    /\ pc = "done" /\ Len(edges) = 2 /\ Len(results) = 1

\* C2: when every fetch succeeds and every record has a well-formed path, the
\* run returns one RouteParam per edge of every page, in page-then-edge
\* order, none dropped, duplicated or reordered.
C2_OnePerEdgeInOrder ==
    (Healthy(store) /\ \A k \in 1..Len(AllEdges(store.pages)) :
                           IsGood(AllEdges(store.pages)[k])) =>
        \A i \in 1..Len(results) :
            /\ ~results[i].raised
            /\ Len(results[i].out) = Len(AllEdges(store.pages))
            /\ results[i].out = ExpectedParams(AllEdges(store.pages))

\* C2 witness: pages of sizes 2, 2, 1 gave 5 entries.
C2_Witness ==
    /\ Healthy(store) /\ Sizes(store) = <<2, 2, 1>>
    /\ Len(results) >= 1 /\ Len(results[1].out) = 5

\* C3: every run of generateStaticParams terminates, also against a store
\* that reports hasNextPage = true on every page.
C3_Terminates == <>(pc = "done")

\* C4: every RouteParam returned has a non-empty slug with no empty segment,
\* whatever storage path the store returned.
C4_SlugsNonEmpty ==
    \A i \in 1..Len(results) : \A k \in 1..Len(results[i].out) :
        /\ results[i].out[k].slug # <<>>
        /\ \A n \in 1..Len(results[i].out[k].slug) : results[i].out[k].slug[n] # <<>>

\* C5: a record stored as content/docs/<a>/<b>.md yields slug [a, b], as the
\* one stored as content/docs/<a>/<b>.mdx does, in every revision.
C5_MdStripped ==
    \A a \in NonEmptySegs, b \in NonEmptySegs :
        IsPathStore(store, Root \o a \o Slash \o b \o DotMd) =>
            \A i \in 1..Len(results) : results[i].out = <<[slug |-> <<a, b>>]>>

\* C6: every well-formed storage path content/docs/<a>/<b>.mdx with non-empty
\* segments a and b yields slug [a, b].
C6_WellFormedSlug ==
    \A a \in NonEmptySegs, b \in NonEmptySegs :
        IsPathStore(store, Root \o a \o Slash \o b \o DotMdx) =>
            \A i \in 1..Len(results) : results[i].out = <<[slug |-> <<a, b>>]>>

\* C6 witness: the path content/docs/.mdx/a.mdx, whose first segment looks
\* like an extension, has been resolved.
C6_Witness ==
    /\ IsPathStore(store, Root \o DotMdx \o Slash \o <<"a">> \o DotMdx)
    /\ Len(results) >= 1 /\ Len(results[1].out) = 1

\* C7: records whose storage path is absent or empty (null edge, null node,
\* missing or "" _sys.path, a node without _sys included) are skipped without
\* aborting: every other record of every page yields its RouteParam, in the
\* original relative order.
C7_SkipsWithoutAbort ==
    (/\ Healthy(store)
     /\ \A k \in 1..Len(AllEdges(store.pages)) :
            IsGood(AllEdges(store.pages)[k]) \/ Skippable(AllEdges(store.pages)[k])
     /\ \E k \in 1..Len(AllEdges(store.pages)) : Skippable(AllEdges(store.pages)[k])) =>
        \A i \in 1..Len(results) :
            /\ ~results[i].raised
            /\ results[i].out = ExpectedParams(AllEdges(store.pages))

\* C8: the canonical URL handed on is <siteUrl>/tinadocs/docs/<slug> exactly
\* when the record has no seo object or no (or an empty) seo.canonicalUrl; a
\* pre-set canonicalUrl is kept, and the other fields of an existing seo
\* object are unchanged.
C8_CanonicalDefault ==
    metaOut.called =>
        LET seo == metaOut.doc.seo
            slug == IF metaOut.params.hasSlug THEN Join(metaOut.params.slug, Slash)
                    ELSE <<>>
            default == (IF metaOut.dev THEN Localhost ELSE SettingsSiteUrl)
                           \o TinaDocsRoute \o slug
            preset == seo.present /\ seo.canonicalUrl.set
                          /\ seo.canonicalUrl.val # <<>>
        IN  /\ metaOut.seo.present /\ metaOut.seo.canonicalUrl.set
            /\ ~preset => metaOut.seo.canonicalUrl.val = default
            /\ preset => metaOut.seo.canonicalUrl.val = seo.canonicalUrl.val
            /\ seo.present => /\ metaOut.seo.title = seo.title
                              /\ metaOut.seo.typename = seo.typename

\* C8 witness: generateMetadata has handled a record with a pre-set canonical
\* URL for the slug [a, b] and kept it.
C8_Witness ==
    /\ metaOut.called
    /\ metaOut.doc.seo.present /\ metaOut.doc.seo.canonicalUrl = Val(PresetUrl)
    /\ metaOut.params.slug = << <<"a">>, <<"b">> >>
    /\ metaOut.seo.canonicalUrl = Val(PresetUrl)

\* C9: two runs against the unchanged store give identical ordered output.
C9_RunsAgree ==
    \A i \in 1..Len(results), j \in 1..Len(results) : results[i] = results[j]

\* C9 witness: two runs over three pages have finished with five entries.
C9_Witness ==
    /\ Len(results) >= 2 /\ Sizes(store) = <<2, 2, 1>>
    /\ Len(results[2].out) = 5

\* C10: against N linked pages ending with hasNextPage = false, a run issues
\* exactly N fetches one after another: the first with no cursor, each later
\* one with the endCursor of the one before and only once that has returned
\* successfully with hasNextPage = true; no page twice, none after a failure
\* or a last page; and the run ends: it is never stuck before its return and
\* never issues more than N fetches.
C10_SequentialFetches ==
    ~store.stuck =>
        /\ outstanding = (IF pc = "await" THEN 1 ELSE 0)
        /\ pc # "idle" => Len(fetchLog) >= 1 /\ fetchLog[1] = NoCursor
        /\ \A k \in 2..Len(fetchLog) :
               /\ ~Fails(store, fetchLog[k - 1])
               /\ docsConnection(store, fetchLog[k - 1]).hasNextPage
               /\ fetchLog[k] = docsConnection(store, fetchLog[k - 1]).endCursor
        /\ \A k \in 1..Len(fetchLog), m \in 1..Len(fetchLog) :
               k # m => fetchLog[k] # fetchLog[m]
        /\ Len(fetchLog) <= NumPages(store)
        /\ (pc \in {"map", "done"} /\ store.failAt = 0) =>
               Len(fetchLog) = NumPages(store)
        /\ (pc = "done" /\ store.failAt # 0) => Len(fetchLog) = store.failAt
        /\ pc = "await" => ENABLED (FetchOk \/ FetchFail)

\* C10 witness: three pages were fetched with cursors none, 1, 2 and the run
\* has ended.
C10_Witness ==
    /\ Healthy(store) /\ NumPages(store) = 3
    /\ pc = "done" /\ fetchLog = <<NoCursor, 1, 2>>

\* The requests for the well-formed documents, written out by hand.
GoodRequests == <<<<"a", "/", "b">>, <<"c">>, <<"b", "/", "a", "/", "c">>>>

\* C11: for every slug generateStaticParams emitted, DocsPage and
\* generateMetadata ask the store for the same document, the slug joined with
\* "/" alone; for a well-formed record that is its storage path without root
\* prefix and extension, for one segment or several, in every revision.
C11_SameDocument ==
    /\ (pageIn.called /\ metaIn.called /\ pageIn.params = metaIn.params) =>
           pageIn.request = metaIn.request
    /\ pageIn.called => pageIn.request = Join(pageIn.params.slug, Slash)
    /\ metaIn.called => metaIn.request = Join(metaIn.params.slug, Slash)
    /\ \A i \in 1..Len(GoodSlugs) :
           /\ (pageIn.called /\ pageIn.params.slug = GoodSlugs[i]) =>
                  pageIn.request = GoodRequests[i]
           /\ (metaIn.called /\ metaIn.params.slug = GoodSlugs[i]) =>
                  metaIn.request = GoodRequests[i]

====
